---------------------------- MODULE Spec2Model ----------------------------
(***************************************************************************)
(* Model of the request core of tixte.py (src/tixte/http.py): the          *)
(* serialized retry loop of HTTP.request, the envelope decoding of         *)
(* HTTP._json_or_text / HTTP._resolve_data, the error classes of           *)
(* src/tixte/errors.py and the unlocked asset download HTTP.get_from_url.  *)
(*                                                                         *)
(* A response on the wire is a record [status, ctype, body, reset,         *)
(* remaining, retry]: body names a wire text, the last three are the       *)
(* rate-limit headers (as header strings, "absent" when the header is not  *)
(* sent).  Python values are strings: "None", a data payload ("d1", "d2"), *)
(* an error object ("e1") or a raw body text.                              *)
(*                                                                         *)
(* No waiter is registered for the `request` event, so the dispatch of     *)
(* line 209 only counts the events it publishes.                           *)
(*                                                                         *)
(* File parts (src/tixte/file.py) are File records built by File_init, and *)
(* Client.wait_for / Client.dispatch (src/tixte/client.py) are modelled    *)
(* for one event whose dispatches carry one argument.                      *)
(***************************************************************************)
EXTENDS Integers, Sequences, FiniteSets, TLC

\* ------------------------------------------------------------------ bounds
NumCallers == 2        \* concurrent callers of HTTP.request
NumDownloaders == 1    \* concurrent callers of HTTP.get_from_url
MaxReset == 2          \* largest x-ratelimit-reset value the server sends
NumWaiters == 3        \* calls of Client.wait_for
MaxListeners == 3      \* callbacks registered with Client.listen
MaxDomains == 2        \* entries of a response of GET /users/@me/domains

\* -------------------------------------------------------- program constants
MaxTries == 5          \* for tries in range(5)

Callers == 1..NumCallers
Downloaders == 1..NumDownloaders
Waiters == 1..NumWaiters
NoCaller == 0

\* ------------------------------------------------------------ wire alphabet
JsonType == "application/json; charset=utf-8"
OtherType == "text/html"

\* Wire texts: JSON documents, and one text that is not JSON.
JsonBodies ==
    {"ok_d1", "ok_d2", "ok_null", "ok_nodata", "fail_e1", "fail_noerr", "noflag"}
TextBodies == {"html"}
Bodies == JsonBodies \cup TextBodies

Statuses == {200, 204, 400, 402, 403, 404, 429, 500, 502, 503, 504}

ResetValues == {"absent", "x"} \cup {ToString(n) : n \in {0, MaxReset}}
RemainingValues == {"absent", "0"}
RetryValues == {"absent", "1"}

\* Every response the server may send: rate-limit headers vary on 429 only,
\* a non-JSON content type is paired with two representative bodies.
Contents ==
    {<<JsonType, b>> : b \in Bodies} \cup {<<OtherType, b>> : b \in {"html", "ok_d1"}}

Response(st, ct, rs, rm, ra) ==
    [status |-> st, ctype |-> ct[1], body |-> ct[2],
     reset |-> rs, remaining |-> rm, retry |-> ra]

AllResponses ==
    {Response(st, ct, "absent", "absent", "absent") :
        st \in Statuses \ {429}, ct \in Contents}
    \cup
    {Response(429, ct, rs, rm, ra) :
        ct \in {<<JsonType, "fail_e1">>, <<OtherType, "html">>, <<JsonType, "fail_noerr">>},
        rs \in ResetValues, rm \in RemainingValues, ra \in RetryValues}

\* The responses of the concurrency specification: one per way an attempt ends.
FewResponses ==
    {Response(200, <<JsonType, "ok_d1">>, "absent", "absent", "absent"),
     Response(404, <<JsonType, "fail_e1">>, "absent", "absent", "absent"),
     Response(500, <<OtherType, "html">>, "absent", "absent", "absent"),
     Response(429, <<JsonType, "fail_e1">>, "0", "0", "absent")}

NoResponse == Response(0, <<"none", "none">>, "absent", "absent", "absent")

\* ------------------------------------------------------------ pure helpers
Ok(v) == [ok |-> TRUE, v |-> v]
Raise(e) == [ok |-> FALSE, v |-> e]

\* utils.to_json: json.loads of a wire text.  The decoded object is a record
\* of its three envelope keys; "absent" marks a key the document lacks and
\* "null" a JSON null.
to_json(text) ==
    CASE text = "ok_d1"      -> Ok([success |-> "true",   data |-> "d1",     error |-> "absent"])
      [] text = "ok_d2"      -> Ok([success |-> "true",   data |-> "d2",     error |-> "absent"])
      [] text = "ok_null"    -> Ok([success |-> "true",   data |-> "null",   error |-> "absent"])
      [] text = "ok_nodata"  -> Ok([success |-> "true",   data |-> "absent", error |-> "absent"])
      [] text = "fail_e1"    -> Ok([success |-> "false",  data |-> "absent", error |-> "e1"])
      [] text = "fail_noerr" -> Ok([success |-> "false",  data |-> "absent", error |-> "absent"])
      [] text = "noflag"     -> Ok([success |-> "absent", data |-> "d1",     error |-> "absent"])
      [] OTHER               -> Raise("JSONDecodeError")

\* dict.get(key): None for a missing key and for a JSON null alike.
DictGet(v) == IF v \in {"absent", "null"} THEN "None" ELSE v

\* float(header string): the decimal strings parse, anything else is a ValueError.
float(s) ==
    IF \E n \in 0..9 : ToString(n) = s
    THEN Ok(CHOOSE n \in 0..9 : ToString(n) = s)
    ELSE Raise("ValueError")

\* HTTP._json_or_text: the decoded document when the Content-Type is exactly
\* the JSON one, the raw text otherwise.
json_or_text(response) ==
    IF response.ctype = JsonType
    THEN LET j == to_json(response.body)
         IN  IF j.ok THEN Ok([str |-> FALSE, text |-> "", obj |-> j.v]) ELSE j
    ELSE Ok([str |-> TRUE, text |-> response.body,
             obj |-> [success |-> "absent", data |-> "absent", error |-> "absent"]])

\* Mutant: the success branch reads the error key instead of the data key.
resolve_data_WrongKey(d) ==
    IF d.str THEN Ok(d.text)
    ELSE IF d.obj.success = "absent" THEN Raise("KeyError")
    ELSE IF d.obj.success = "false"
         THEN IF DictGet(d.obj.error) = "None"
              THEN Raise("TixteException")
              ELSE Ok(DictGet(d.obj.error))
    ELSE IF DictGet(d.obj.data) = "None"
         THEN Raise("TixteException")
         ELSE Ok(DictGet(d.obj.error))

\* Mutant: a missing error object or data field is passed on as None.
resolve_data_NoneForMissing(d) ==
    IF d.str THEN Ok(d.text)
    ELSE IF d.obj.success = "absent" THEN Raise("KeyError")
    ELSE IF d.obj.success = "false"
         THEN Ok(DictGet(d.obj.error))
    ELSE Ok(DictGet(d.obj.data))

\* HTTP._resolve_data
resolve_data(d) ==
    IF d.str THEN Ok(d.text)
    ELSE IF d.obj.success = "absent" THEN Raise("KeyError")
    ELSE IF d.obj.success = "false"
         THEN IF DictGet(d.obj.error) = "None"
              THEN Raise("TixteException")
              ELSE Ok(DictGet(d.obj.error))
    ELSE IF DictGet(d.obj.data) = "None"
         THEN Raise("TixteException")
         ELSE Ok(DictGet(d.obj.data))

\* 300 > response.status >= 200
IsOk(status) == 300 > status /\ status >= 200

\* The statuses the loop sleeps on and retries.
IsRateLimited(status) == status = 429

\* Mutant: 503 is retried like the other gateway errors.
IsServerTransient_With503(status) == status \in {500, 502, 503, 504}

IsServerTransient(status) == status \in {500, 502, 504}

\* Mutant: the sleep is always the x-ratelimit-reset value.
retry_after_ResetOnly(response) ==
    IF response.reset = "absent" THEN Raise("KeyError") ELSE float(response.reset)

\* Lines 235-239: the rate-limit sleep of a 429 response.
retry_after(response) ==
    IF response.reset = "absent" THEN Raise("KeyError")
    ELSE LET reset == float(response.reset)
         IN  IF ~reset.ok THEN reset
             ELSE IF reset.v = 0 /\ response.remaining = "absent"
                  THEN IF response.retry = "absent"
                       THEN Raise("KeyError")
                       ELSE float(response.retry)
                  ELSE reset

\* Mutant: the backoff grows by one second per attempt.
Backoff_Linear(t) == 1 + t

\* await asyncio.sleep(1 + tries * 2)
Backoff(t) == 1 + t * 2

\* Mutant: the 403 and 404 branches are swapped.
ErrorFor_Swapped(status) ==
    IF status = 402 THEN "PaymentRequired"
    ELSE IF status = 403 THEN "NotFound"
    ELSE IF status = 404 THEN "Forbidden"
    ELSE IF status >= 500 THEN "TixteServerError"
    ELSE "HTTPException"

\* Mutant: the branch for statuses >= 500 is missing.
ErrorFor_NoServerBranch(status) ==
    IF status = 402 THEN "PaymentRequired"
    ELSE IF status = 403 THEN "Forbidden"
    ELSE IF status = 404 THEN "NotFound"
    ELSE "HTTPException"

\* The decoded values as Python objects: the error object e1 is the dict
\* {"code": "c1", "message": "m1"}, the data payloads are dicts without
\* these keys; a text body and None are not dicts.  A key a dict does not
\* have is "absent".
IsDict(v) == v \in {"e1", "d1", "d2"}
Items(v) ==
    IF v = "e1" THEN [error |-> "absent", code |-> "c1", message |-> "m1"]
    ELSE [error |-> "absent", code |-> "absent", message |-> "absent"]

\* HTTPException.__init__ (errors.py 63-84): code and message are read from
\* data['error'] when data is a dict, with {} for a missing 'error' key, and
\* are None otherwise.
HTTPException_init(data) ==
    IF IsDict(data)
    THEN LET error == IF Items(data).error = "absent"
                      THEN [code |-> "absent", message |-> "absent"]
                      ELSE Items(Items(data).error)
         IN  [code |-> DictGet(error.code), message |-> DictGet(error.message)]
    ELSE [code |-> "None", message |-> "None"]

\* Lines 262-271: the error raised inside the loop for a status that is
\* neither 2xx nor retried.
ErrorFor(status) ==
    IF status = 402 THEN "PaymentRequired"
    ELSE IF status = 403 THEN "Forbidden"
    ELSE IF status = 404 THEN "NotFound"
    ELSE IF status >= 500 THEN "TixteServerError"
    ELSE "HTTPException"

\* Mutant: the loop's exhaustion always raises the generic error.
ExhaustedError_Generic(status) == "HTTPException"

\* Lines 278-282: the error raised once the loop has run out.
ExhaustedError(status) ==
    IF status >= 500 THEN "TixteServerError" ELSE "HTTPException"

\* What one attempt does with its response (lines 209-271): it returns,
\* raises, or sleeps before the next attempt.  value is what is returned, or
\* the data the raised HTTPException carries; assigned tells whether line 223
\* assigned resolved_data, and resolved what it assigned; close tells whether
\* the file parts are closed on the way out.
Returns(v) ==
    [kind |-> "return", exc |-> "none", value |-> v, assigned |-> TRUE, resolved |-> v,
     delay |-> 0, close |-> TRUE]
Raises(e, v) ==
    [kind |-> "raise", exc |-> e, value |-> v, assigned |-> TRUE, resolved |-> v,
     delay |-> 0, close |-> TRUE]
Sleeps(n, v) ==
    [kind |-> "sleep", exc |-> "none", value |-> "None", assigned |-> TRUE, resolved |-> v,
     delay |-> n, close |-> FALSE]
\* An exception other than the loop's own raise statements: json.loads or
\* _resolve_data failing (before), or the rate-limit headers (after line 223).
Fails(e, assigned, v) ==
    [kind |-> "raise", exc |-> e, value |-> "None", assigned |-> assigned, resolved |-> v,
     delay |-> 0, close |-> FALSE]

Attempt(response, t) ==
    LET data == json_or_text(response)
    IN  IF ~data.ok THEN Fails(data.v, FALSE, "None")
        ELSE LET resolved == resolve_data(data.v)
             IN  IF ~resolved.ok THEN Fails(resolved.v, FALSE, "None")
                 ELSE IF IsOk(response.status) THEN Returns(resolved.v)
                 ELSE IF IsRateLimited(response.status)
                      THEN LET ra == retry_after(response)
                           IN  IF ra.ok THEN Sleeps(ra.v, resolved.v)
                               ELSE Fails(ra.v, TRUE, resolved.v)
                 ELSE IF IsServerTransient(response.status)
                      THEN Sleeps(Backoff(t), resolved.v)
                 ELSE Raises(ErrorFor(response.status), resolved.v)

\* Mutant: a rate-limited attempt does not use up a try.
Continue_FreeRateLimit(t, status) == IF status = 429 THEN t ELSE t + 1

\* `continue`: the next value of the loop variable of `for tries in range(5)`.
Continue(t, status) == t + 1

\* Mutant: the lock is taken around each attempt, not around the loop.
LockAfter_PerAttempt(c, kind) == NoCaller

\* `async with self.session_lock` encloses the whole loop: the lock stays with
\* the caller across a sleep and is released when the call returns or raises.
LockAfter(c, kind) == IF kind = "sleep" THEN c ELSE NoCaller

\* Mutant: an exception that leaves the loop leaves the lock with the caller.
LockOnException_Held(c) == c

\* `async with self.session_lock` (line 206): an exception raised at an await
\* inside the block leaves it through the lock's __aexit__, which releases.
LockOnException(c) == NoCaller

\* HTTP.get_from_url, lines 291-298.
DownloadResult(status) ==
    IF status = 200 THEN [tag |-> "return", exc |-> "none"]
    ELSE IF status = 404 THEN [tag |-> "raise", exc |-> "NotFound"]
    ELSE IF status = 403 THEN [tag |-> "raise", exc |-> "Forbidden"]
    ELSE [tag |-> "raise", exc |-> "HTTPException"]

DownloadStatuses == {200, 403, 404, 429, 500, 502, 504}

\* -------------------------------------------------------------- file parts
\* What File(fp, filename) may be given as fp (src/tixte/file.py): a path, or
\* an io.IOBase object of the caller with its seekable(), readable() and name
\* ("None" when it has no name attribute).  For a path, name is the path.
FilePath == [io |-> FALSE, seekable |-> TRUE, readable |-> TRUE, name |-> "dir/a.png"]
BytesIO == [io |-> TRUE, seekable |-> TRUE, readable |-> TRUE, name |-> "None"]
OpenedFile == [io |-> TRUE, seekable |-> TRUE, readable |-> TRUE, name |-> "b.bin"]
Pipe == [io |-> TRUE, seekable |-> FALSE, readable |-> TRUE, name |-> "None"]
WriteOnly == [io |-> TRUE, seekable |-> TRUE, readable |-> FALSE, name |-> "None"]
Socket == [io |-> TRUE, seekable |-> FALSE, readable |-> FALSE, name |-> "None"]

FilePointers == {FilePath, BytesIO, OpenedFile, Pipe, WriteOnly, Socket}

\* The filename argument of File: None, the empty string, or a name.
FilenameArgs == {"None", "", "c.txt"}

\* os.path.split(fp)[1]
basename(path) == IF path = "dir/a.png" THEN "a.png" ELSE path

\* No file part: HTTP.request called with files=None.
NoFile ==
    [given |-> FALSE, owner |-> FALSE, handle |-> "none", stubbed |-> FALSE,
     filename |-> "None", position |-> "original", carried |-> "none"]

\* Mutant: one of seekable() and readable() is enough.
File_init_EitherSuffices(fp, filename) ==
    IF fp.io /\ ~(fp.seekable \/ fp.readable)
    THEN Raise("ValueError")
    ELSE Ok([given |-> TRUE, owner |-> ~fp.io, handle |-> "open", stubbed |-> TRUE,
             position |-> "original", carried |-> "none",
             filename |-> IF filename = "None"
                          THEN IF fp.io THEN fp.name ELSE basename(fp.name)
                          ELSE filename])

\* Mutant: a File without a usable filename cannot be constructed.
File_init_RequiresName(fp, filename) ==
    LET name == IF filename = "None"
                THEN IF fp.io THEN fp.name ELSE basename(fp.name)
                ELSE filename
    IN  IF (fp.io /\ ~(fp.seekable /\ fp.readable)) \/ name \in {"None", ""}
        THEN Raise("ValueError")
        ELSE Ok([given |-> TRUE, owner |-> ~fp.io, handle |-> "open", stubbed |-> TRUE,
                 position |-> "original", carried |-> "none",
                 filename |-> name])

\* File.__init__: a handle of the caller must be seekable and readable and is
\* not owned; a path is opened and owned.  fp.close is stubbed, and the
\* filename defaults to the path's last component or to fp.name.
File_init(fp, filename) ==
    IF fp.io /\ ~(fp.seekable /\ fp.readable)
    THEN Raise("ValueError")
    ELSE Ok([given |-> TRUE, owner |-> ~fp.io, handle |-> "open", stubbed |-> TRUE,
             position |-> "original", carried |-> "none",
             filename |-> IF filename = "None"
                          THEN IF fp.io THEN fp.name ELSE basename(fp.name)
                          ELSE filename])

\* Mutant: close() closes the handle whoever owns it.
File_close_Always(f) == [f EXCEPT !.stubbed = FALSE, !.handle = "closed"]

\* File.close: fp.close is restored, and called when the File owns the handle.
File_close(f) ==
    [f EXCEPT !.stubbed = FALSE, !.handle = IF f.owner THEN "closed" ELSE @]

\* The exchange reads the file part, fp.read(), from where the handle stands
\* to its end: all the bytes from the original position (_original_pos is
\* where the handle stood when the File was built, lines 62 and 66), none
\* when the handle is at its end already.  HTTP.request builds the form data
\* once, before the loop (http.py 187-201), and no statement of the loop moves
\* the handle back.
ReadFile(f) ==
    IF f.given
    THEN [f EXCEPT !.carried = IF f.position = "original" THEN "bytes" ELSE "empty",
                   !.position = "end"]
    ELSE f

\* `for file in files: file.close()`, when files is not None.
CloseFiles(f) == IF f.given THEN File_close(f) ELSE f

\* The File objects a request may be given.
Files == {File_init(fp, fn).v : fp \in {FilePath, BytesIO}, fn \in {"None"}}

\* Mutant: the `request` event is dispatched once the body has been decoded
\* and resolved.
dispatch_request_AfterDecode(n, assigned) == IF assigned THEN n + 1 ELSE n

\* self.dispatch('request', response), line 209: the first statement of every
\* attempt.  n is the number of events dispatched so far.
dispatch_request(n, assigned) == n + 1

\* ----------------------------------------------------------------- waiters
\* Client.wait_for and Client.dispatch (src/tixte/client.py) for one event.
\* A dispatch carries one positional argument; the check of a waiter is None
\* or a predicate over that argument.
Payloads == {"a", "b"}
Checks == {"None", "always", "is_a"}

\* condition(*args, **kwargs)
Accepts(condition, payload) ==
    IF condition = "always" THEN TRUE ELSE payload = "a"

\* list.remove(x): the list without its first element equal to x.
RECURSIVE Remove(_, _)
Remove(list, x) ==
    IF list = <<>> THEN <<>>
    ELSE IF Head(list) = x THEN Tail(list)
    ELSE <<Head(list)>> \o Remove(Tail(list), x)

\* asyncio futures: not created yet, pending, done with a result, cancelled.
NoFuture == [state |-> "none", result |-> "None"]
Pending == [state |-> "pending", result |-> "None"]
Cancelled == [state |-> "cancelled", result |-> "None"]
SetResult(payload) == [state |-> "done", result |-> payload]

\* future.done(): true of a future that has a result or was cancelled.
done(f) == f.state \in {"done", "cancelled"}

\* The loop `for future, condition in waiters` of Client.dispatch (lines
\* 176-193) from list index i on.  The list is the one the loop iterates
\* over, so that an element removed at index i moves the next element to
\* index i, which the iterator has passed.  st.evaluated collects the
\* waiters whose condition was called, st.resolved those whose future was set.
RECURSIVE dispatch_waiters(_, _, _)
dispatch_waiters(i, st, payload) ==
    IF i > Len(st.list) THEN st
    ELSE LET item == st.list[i]
             called == item.condition # "None"
             result == IF called THEN Accepts(item.condition, payload) ELSE FALSE
             seen == IF called THEN st.evaluated \cup {item.future} ELSE st.evaluated
         IN  IF ~result \/ done(st.future[item.future])
             THEN dispatch_waiters(i + 1, [st EXCEPT !.evaluated = seen], payload)
             ELSE dispatch_waiters(i + 1,
                      [list |-> Remove(st.list, item),
                       future |-> [st.future EXCEPT ![item.future] = SetResult(payload)],
                       evaluated |-> seen,
                       resolved |-> st.resolved \cup {item.future}],
                      payload)

\* --------------------------------------------------------------- listeners
\* Client.listen and the listeners of Client.dispatch.  A callback is a
\* function with its __name__ and its kind: a coroutine function that runs to
\* its end ("coro"), one that raises while it runs ("coro_raises"), one whose
\* parameters do not take the dispatched arguments ("coro_badsig"), or a
\* plain function ("function").  Client.remove_listener is left out.
CallbackKinds == {"coro", "coro_raises", "coro_badsig", "function"}
Callbacks == [name : {"on_y", "handler"}, kind : CallbackKinds]

\* The event argument of listen: None, or a string.
EventArgs == {"None", "", "on_x", "x"}

\* The keys Client._listeners can get from these names.
ListenerKeys == {"on_x", "on_y", "on_request"}

\* asyncio.iscoroutinefunction(func)
iscoroutinefunction(func) == func.kind # "function"

\* event_name.startswith('on_')
startswith_on(name) == name \in {"on_x", "on_y", "on_request"}

\* Mutant: the callback is appended before it and the name are validated.
listen_AppendFirst(registry, event, func) ==
    LET event_name == IF event \in {"None", ""} THEN func.name ELSE event
        key == IF event_name \in ListenerKeys THEN event_name ELSE "on_x"
        appended == [registry EXCEPT ![key] = Append(@, func)]
    IN  IF ~iscoroutinefunction(func)
        THEN [exc |-> "TypeError", registry |-> appended]
        ELSE IF ~startswith_on(event_name)
             THEN [exc |-> "ValueError", registry |-> appended]
             ELSE [exc |-> "none", registry |-> appended]

\* The decorator of Client.listen (lines 219-230) applied to func; `event or
\* func.__name__` takes the function's name for None and for the empty string.
\* The result is the exception raised, if any, and the registry afterwards.
listen(registry, event, func) ==
    IF ~iscoroutinefunction(func)
    THEN [exc |-> "TypeError", registry |-> registry]
    ELSE LET event_name == IF event \in {"None", ""} THEN func.name ELSE event
         IN  IF ~startswith_on(event_name)
             THEN [exc |-> "ValueError", registry |-> registry]
             ELSE [exc |-> "none",
                   registry |-> [registry EXCEPT ![event_name] = Append(@, func)]]

\* `for item in callables: asyncio.create_task(item(*args, **kwargs))`, lines
\* 171-174, from list index i on: calling a coroutine function binds the
\* arguments, which raises TypeError out of dispatch when they do not fit;
\* otherwise the coroutine becomes a task that runs later.
RECURSIVE dispatch_listeners(_, _, _, _)
dispatch_listeners(i, callables, payload, created) ==
    IF i > Len(callables) THEN [exc |-> "none", tasks |-> created]
    ELSE IF callables[i].kind = "coro_badsig"
         THEN [exc |-> "TypeError", tasks |-> created]
         ELSE dispatch_listeners(i + 1, callables, payload,
                  Append(created, [pos |-> i, func |-> callables[i], args |-> payload,
                                   state |-> "scheduled"]))

\* How a task ends when the event loop runs it.
RunOutcome(func) == IF func.kind = "coro_raises" THEN "failed" ELSE "finished"

\* ------------------------------------------------------------------ caches
\* State (src/tixte/state.py) and the Client and Domain methods that fill it.
\* The payloads of the server: a user, and the entries of the domain list.
UserIds == {"u1", "u2"}
UserData == [id : UserIds, username : {"n1", "n2"}]
DomainUrls == {"a.tixte.co", "b.tixte.co"}
DomainData == [name : DomainUrls, uploads : {1, 2}, owner : {"u1"}]
NoData == [id |-> "None", username |-> "None"]

\* data['domains'] of a response: up to MaxDomains entries, one per domain.
DomainsResponses ==
    {e \in UNION {[1..n -> DomainData] : n \in 0..MaxDomains} :
        \A i, j \in 1..Len(e) : i # j => e[i].name # e[j].name}

\* Cached objects; None for client_user and for dict.get / dict.pop misses.
NoUser == [id |-> "None", username |-> "None"]
NoDomain == [url |-> "None", uploads |-> 0, owner_id |-> "None"]

\* User.__init__(self, status, data) (user.py 61-75), called with the keyword
\* arguments kwargs: a keyword that is not a parameter is a TypeError.
User_init(kwargs, data) ==
    IF kwargs # {"status", "data"} THEN Raise("TypeError")
    ELSE Ok([id |-> data.id, username |-> data.username])

\* Domain.__init__(self, *, state, data) (domain.py 77-82).
Domain_init(kwargs, data) ==
    IF kwargs # {"state", "data"} THEN Raise("TypeError")
    ELSE Ok([url |-> data.name, uploads |-> data.uploads, owner_id |-> data.owner])

\* dict.get(key) on the domain cache, a dict kept in insertion order.
get_domain(cache, url) ==
    IF \E i \in 1..Len(cache) : cache[i].url = url
    THEN cache[CHOOSE i \in 1..Len(cache) : cache[i].url = url]
    ELSE NoDomain

\* self.domains[domain.url] = domain: the value of an existing key is
\* replaced where it is, a new key goes to the end.
SetItem(cache, domain) ==
    IF \E i \in 1..Len(cache) : cache[i].url = domain.url
    THEN [i \in 1..Len(cache) |-> IF cache[i].url = domain.url THEN domain ELSE cache[i]]
    ELSE Append(cache, domain)

\* State.store_user: User(state=self, data=data), then self.users[user.id] = user.
store_user(cache, data) ==
    LET user == User_init({"state", "data"}, data)
    IN  IF user.ok
        THEN [exc |-> "none", users |-> [cache EXCEPT ![user.v.id] = user.v], user |-> user.v]
        ELSE [exc |-> user.v, users |-> cache, user |-> NoUser]

\* State.store_client_user: ClientUser(state=self, data=data), whose
\* __init__ has the parameters of User.__init__.
store_client_user(cached, data) ==
    LET user == User_init({"state", "data"}, data)
    IN  IF user.ok
        THEN [exc |-> "none", client_user |-> user.v]
        ELSE [exc |-> user.v, client_user |-> cached]

\* State.store_domain
store_domain(cache, data) ==
    LET domain == Domain_init({"state", "data"}, data)
    IN  IF domain.ok
        THEN [exc |-> "none", domains |-> SetItem(cache, domain.v)]
        ELSE [exc |-> domain.v, domains |-> cache]

\* State.remove_domain: self.domains.pop(url, None)
remove_domain(cache, url) == SelectSeq(cache, LAMBDA d : d.url # url)

\* `for entry in data['domains']: self._state.store_domain(entry)`
RECURSIVE store_domains(_, _)
store_domains(cache, entries) ==
    IF entries = <<>> THEN [exc |-> "none", domains |-> cache]
    ELSE LET stored == store_domain(cache, Head(entries))
         IN  IF stored.exc # "none" THEN stored
             ELSE store_domains(stored.domains, Tail(entries))

\* Mutant: leaving the context leaves the session as it is.
aexit_NoCleanup(s) == [exc |-> "none", session |-> s]

\* Client.cleanup (client.py 336-346): ValueError without a session, else
\* session.close(), which closes an open session and leaves a closed one.
cleanup(s) ==
    IF s = "none" THEN [exc |-> "ValueError", session |-> s]
    ELSE [exc |-> "none", session |-> "closed"]

\* Client.__aexit__ (client.py 143-144)
aexit(s) == cleanup(s)

\* Mutant: the entry is removed before the request is awaited.
delete_RemoveFirst(cache, url, ok) == remove_domain(cache, url)

\* Domain.delete (domain.py 124-137): the entry is removed once the awaited
\* request has returned; a request that raises leaves the method before.
delete(cache, url, ok) == IF ok THEN remove_domain(cache, url) ELSE cache

\* -------------------------------------------------------------- permissions
\* Permissions (src/tixte/permissions.py) of one upload: _permissions is None
\* (set is FALSE) or a dict from User objects to levels, written here by the
\* users' ids with "absent" for a user who is not a key.
PermissionLevels == {"viewer", "manager", "owner"}
LevelMaps == [UserIds -> PermissionLevels \cup {"absent"}]
NoPermissions == [set |-> FALSE, levels |-> [id \in UserIds |-> "absent"]]
EmptyDict == [set |-> TRUE, levels |-> [id \in UserIds |-> "absent"]]

\* The list GET .../permissions answers for the levels m: one entry, with the
\* user's payload and the access level, per user who has one.
PermissionEntry(m, id) ==
    IF m[id] = "absent" THEN <<>>
    ELSE <<[user |-> [id |-> id, username |-> "n1"], access_level |-> m[id]]>>
PermissionList(m) == PermissionEntry(m, "u1") \o PermissionEntry(m, "u2")

\* hash(user): User defines __eq__ (user.py 80-81) and no __hash__, which
\* leaves the class unhashable; a User cannot be the key of a dict.
hash_User(user) == Raise("TypeError")

\* `if self._permissions:`: neither None nor an empty dict.
Truthy(p) == p.set /\ \E id \in UserIds : p.levels[id] # "absent"

\* self._permissions[user] = level
SetLevel(p, user, level) ==
    IF ~hash_User(user).ok THEN [exc |-> hash_User(user).v, permissions |-> p]
    ELSE [exc |-> "none", permissions |-> [p EXCEPT !.levels[user.id] = level]]

\* self._permissions.pop(user, None), on a dict that is not empty.
PopLevel(p, user) ==
    IF ~hash_User(user).ok THEN [exc |-> hash_User(user).v, permissions |-> p]
    ELSE [exc |-> "none", permissions |-> [p EXCEPT !.levels[user.id] = "absent"]]

\* The loop of _parse_permissions (lines 49-54) from entry i on: each user is
\* stored in the users cache and becomes a key of data.
RECURSIVE parse_entries(_, _, _, _)
parse_entries(i, cache, parser, data) ==
    IF i > Len(parser) THEN [exc |-> "none", users |-> cache, permissions |-> data]
    ELSE LET stored == store_user(cache, parser[i].user)
         IN  IF stored.exc # "none"
             THEN [exc |-> stored.exc, users |-> stored.users, permissions |-> data]
             ELSE LET put == SetLevel(data, stored.user, parser[i].access_level)
                  IN  IF put.exc # "none"
                      THEN [exc |-> put.exc, users |-> stored.users, permissions |-> data]
                      ELSE parse_entries(i + 1, stored.users, parser, put.permissions)

\* _parse_permissions (lines 45-54): None for an empty list.
parse_permissions(cache, parser) ==
    IF parser = <<>>
    THEN [exc |-> "none", users |-> cache, permissions |-> NoPermissions]
    ELSE parse_entries(1, cache, parser, EmptyDict)

NoPermit ==
    [op |-> "none", user |-> "None", level |-> "absent", ok |-> FALSE, exc |-> "none"]

\* ----------------------------------------------------------------- equality
\* The objects that carry an id, each with the id and with a snapshot of its
\* other fields; type_of is the attribute IDable.__init__ sets, "unset" on an
\* object whose constructor never assigned it.
IdKinds == {"IDable", "PartialUpload", "Upload", "User"}
Ids == {"x", "y"}
Snapshots == {"first", "second"}

\* Each class's __init__: IDable.__init__ (abc.py 74-76) sets id and
\* type_of; PartialUpload.__init__ (upload.py 73-76) and Upload.__init__
\* (upload.py 174-189) set id and their own fields and do not call
\* IDable.__init__; User.__init__ (user.py 61-75) sets id and its fields.
New(kind, id, snapshot) ==
    [kind |-> kind, id |-> id, snapshot |-> snapshot,
     type_of |-> IF kind = "IDable" THEN "IDable" ELSE "unset"]

IdObjects == {New(kind, id, snapshot) : kind \in IdKinds, id \in Ids, snapshot \in Snapshots}

\* isinstance(o, IDable)
IsIDable(o) == o.kind \in {"IDable", "PartialUpload", "Upload"}

\* a == b: User.__eq__ (user.py 80-81) compares the ids; the other classes
\* inherit IDable.__eq__ (abc.py 78-82), which reads self.type_of first, an
\* AttributeError when the slot was never assigned.
eq(a, b) ==
    IF a.kind = "User" THEN Ok(a.id = b.id)
    ELSE IF a.type_of = "unset" THEN Raise("AttributeError")
    ELSE IF ~IsIDable(b) THEN Ok(FALSE)
    ELSE Ok(a.id = b.id)

NoCompare == [a |-> New("IDable", "None", "first"), b |-> New("IDable", "None", "first"),
              result |-> Raise("none")]

\* ------------------------------------------------------------------- state
VARIABLES
    session,        \* HTTP.session: "none", or "open"
    session_lock,   \* the caller holding HTTP.session_lock, or NoCaller
    waiters,        \* the callers queued on the lock, first come first
    pc,             \* where each call of HTTP.request stands
    files,          \* whether the call was given file parts
    closed,         \* whether close() was called on its file parts
    tries,          \* the loop variable
    attempts,       \* how many exchanges the call has started
    events,         \* how many `request` events the call has dispatched
    response,       \* the last response of the call
    resolved_data,  \* the resolved_data of the call
    delay,          \* the length of the sleep the call is in
    slept,          \* the seconds the call has slept in all
    result,         \* how the call ended
    upload,         \* the fp and filename the caller built its File from
    file,           \* the File of the call
    published,      \* the payload of the last `request` event of the call
    client_waiters, \* Client._waiters of the event: a list of (future, condition)
    future,         \* the future of each call of wait_for
    wait,           \* where each call of wait_for stands
    last,           \* the last dispatch of the event and what it did
    listeners,      \* Client._listeners: the list of callbacks of each event name
    listened,       \* the last application of the decorator of Client.listen
    tasks,          \* the tasks the last dispatch created, and how each ended
    users,          \* State.users
    client_user,    \* State.client_user
    domains,        \* State.domains, in insertion order
    fetched,        \* the last cache operation: its request and what it returned
    ctx,            \* `async with client`: where it is, and whose session it uses
    compared,       \* the last comparison `a == b` and its outcome
    permitted,      \* the last call on the Permissions object
    granted,        \* what the server was told: the fetched levels and the later changes
    permissions,    \* Permissions._permissions of one upload
    limited,        \* whether the call has been answered 429
    dl,             \* where each call of HTTP.get_from_url stands
    dlresult        \* how it ended

eventvars == <<client_waiters, future, wait, last, listeners, listened, tasks>>

cachevars == <<users, client_user, domains, fetched>>

\* HTTP.session is "none" or "open", and "closed" once a client used as a
\* context manager has closed it.

vars == <<session, session_lock, waiters, pc, files, closed, tries, attempts, events,
          response, resolved_data, delay, slept, result, upload, file, published,
          dl, dlresult, eventvars, cachevars, ctx, compared, limited, permissions, granted, permitted>>

callvars == <<files, closed, tries, attempts, events, response, resolved_data,
              delay, slept, result, upload, file, published>>

\* Before the caller has built a File.
NoPointer == [io |-> FALSE, seekable |-> FALSE, readable |-> FALSE, name |-> "None"]
NoUpload == [fp |-> NoPointer, filename |-> "None"]

NoResult == [tag |-> "none", exc |-> "none", value |-> "None", exit |-> "none"]

\* Before wait_for is called, and before the first dispatch.
NoWait == [at |-> "idle", timeout |-> FALSE, value |-> "None"]
NoDispatch ==
    [payload |-> "none", before |-> <<>>, pending |-> {}, evaluated |-> {},
     resolved |-> {}, callables |-> <<>>, exc |-> "none"]
NoFetch ==
    [op |-> "none", arg |-> "None", ok |-> FALSE, exc |-> "none", data |-> NoData,
     entries |-> <<>>, returned |-> <<>>]
NoListen == [event |-> "None", func |-> [name |-> "none", kind |-> "none"], exc |-> "none"]

Init ==
    /\ session \in {"none", "open"}
    /\ session_lock = NoCaller
    /\ waiters = <<>>
    /\ pc = [c \in Callers |-> "idle"]
    /\ files = [c \in Callers |-> FALSE]
    /\ closed = [c \in Callers |-> FALSE]
    /\ tries = [c \in Callers |-> 0]
    /\ attempts = [c \in Callers |-> 0]
    /\ events = [c \in Callers |-> 0]
    /\ response = [c \in Callers |-> NoResponse]
    /\ resolved_data = [c \in Callers |-> "None"]
    /\ delay = [c \in Callers |-> 0]
    /\ slept = [c \in Callers |-> 0]
    /\ result = [c \in Callers |-> NoResult]
    /\ upload = [c \in Callers |-> NoUpload]
    /\ file = [c \in Callers |-> NoFile]
    /\ published = [c \in Callers |-> NoResponse]
    /\ client_waiters = <<>>
    /\ future = [w \in Waiters |-> NoFuture]
    /\ wait = [w \in Waiters |-> NoWait]
    /\ last = NoDispatch
    /\ listeners = [k \in ListenerKeys |-> <<>>]
    /\ listened = NoListen
    /\ tasks = <<>>
    /\ users = [id \in UserIds |-> NoUser]
    /\ client_user = NoUser
    /\ domains = <<>>
    /\ fetched = NoFetch
    /\ ctx = [pos |-> "out", supplied |-> (session = "open"), exc |-> "none"]
    /\ compared = NoCompare
    /\ permitted = NoPermit
    /\ granted = NoPermissions
    /\ permissions = NoPermissions
    /\ limited = [c \in Callers |-> FALSE]
    /\ dl = [d \in Downloaders |-> "idle"]
    /\ dlresult = [d \in Downloaders |->
                      [tag |-> "none", exc |-> "none", status |-> 0, exchanges |-> 0]]

\* ----------------------------------------------------------------- actions
\* HTTP.request up to `async with self.session_lock` (lines 170-206), called
\* with the File f as its only file part, or with NoFile: the session is
\* created when there is none, and the lock is taken at once when it is free
\* with nobody queued, else the caller queues for it.
Request(c, f) ==
    /\ pc[c] = "idle"
    /\ session' = "open"
    /\ files' = [files EXCEPT ![c] = f.given]
    /\ file' = [file EXCEPT ![c] = f]
    /\ IF session_lock = NoCaller /\ waiters = <<>>
       THEN /\ session_lock' = c
            /\ pc' = [pc EXCEPT ![c] = "attempt"]
            /\ UNCHANGED waiters
       ELSE /\ waiters' = Append(waiters, c)
            /\ pc' = [pc EXCEPT ![c] = "waiting"]
            /\ UNCHANGED session_lock
    /\ UNCHANGED <<closed, tries, attempts, events, response, resolved_data,
                   delay, slept, result, upload, published, dl, dlresult>>
    /\ UNCHANGED eventvars
    /\ UNCHANGED cachevars
    /\ UNCHANGED ctx
    /\ UNCHANGED compared
    /\ UNCHANGED limited
    /\ UNCHANGED permissions
    /\ UNCHANGED granted
    /\ UNCHANGED permitted

\* `await client.upload(File(fp, filename))`: File.__init__, then
\* Client.upload (client.py 422-456) and HTTP.upload (http.py 300-312), which
\* hand the File to HTTP.request with file.filename as the name of the upload.
Upload(c, fp, filename) ==
    /\ pc[c] = "idle"
    /\ upload[c] = NoUpload
    /\ upload' = [upload EXCEPT ![c] = [fp |-> fp, filename |-> filename]]
    /\ LET f == File_init(fp, filename)
       IN  IF f.ok
           THEN /\ session' = "open"
                /\ files' = [files EXCEPT ![c] = TRUE]
                /\ file' = [file EXCEPT ![c] = f.v]
                /\ IF session_lock = NoCaller /\ waiters = <<>>
                   THEN /\ session_lock' = c
                        /\ pc' = [pc EXCEPT ![c] = "attempt"]
                        /\ UNCHANGED waiters
                   ELSE /\ waiters' = Append(waiters, c)
                        /\ pc' = [pc EXCEPT ![c] = "waiting"]
                        /\ UNCHANGED session_lock
                /\ UNCHANGED result
           ELSE /\ pc' = [pc EXCEPT ![c] = "done"]
                /\ result' = [result EXCEPT ![c] =
                       [tag |-> "raise", exc |-> f.v, value |-> "None",
                        exit |-> "construct"]]
                /\ UNCHANGED <<session, session_lock, waiters, files, file>>
    /\ UNCHANGED <<closed, tries, attempts, events, response, resolved_data,
                   delay, slept, published, dl, dlresult>>
    /\ UNCHANGED eventvars
    /\ UNCHANGED cachevars
    /\ UNCHANGED ctx
    /\ UNCHANGED compared
    /\ UNCHANGED limited
    /\ UNCHANGED permissions
    /\ UNCHANGED granted
    /\ UNCHANGED permitted

\* The first queued caller wakes up with the lock once it has been released.
Acquire(c) ==
    /\ pc[c] = "waiting"
    /\ session_lock = NoCaller
    /\ waiters # <<>> /\ Head(waiters) = c
    /\ session_lock' = c
    /\ waiters' = Tail(waiters)
    /\ pc' = [pc EXCEPT ![c] = "attempt"]
    /\ UNCHANGED <<session, dl, dlresult>>
    /\ UNCHANGED callvars
    /\ UNCHANGED eventvars
    /\ UNCHANGED cachevars
    /\ UNCHANGED ctx
    /\ UNCHANGED compared
    /\ UNCHANGED limited
    /\ UNCHANGED permissions
    /\ UNCHANGED granted
    /\ UNCHANGED permitted

\* self.session.request(method, url, **kwargs), line 208: the exchange starts
\* and sends the form data, reading the file part.
Send(c) ==
    /\ pc[c] = "attempt"
    /\ pc' = [pc EXCEPT ![c] = "exchange"]
    /\ attempts' = [attempts EXCEPT ![c] = @ + 1]
    /\ file' = [file EXCEPT ![c] = ReadFile(@)]
    /\ UNCHANGED <<session, session_lock, waiters, files, closed, tries, events,
                   response, resolved_data, delay, slept, result, upload,
                   published, dl, dlresult>>
    /\ UNCHANGED eventvars
    /\ UNCHANGED cachevars
    /\ UNCHANGED ctx
    /\ UNCHANGED compared
    /\ UNCHANGED limited
    /\ UNCHANGED permissions
    /\ UNCHANGED granted
    /\ UNCHANGED permitted

\* The response arrives and the attempt handles it (lines 208-271): first
\* self.dispatch('request', response), which calls the listeners of on_request
\* to make them tasks; an exception raised there leaves HTTP.request as any
\* other exception of the loop does.  The tasks run apart from the request.
Receive(c, r) ==
    /\ pc[c] = "exchange"
    /\ LET observed == dispatch_listeners(1, listeners["on_request"], r, <<>>)
           out == IF observed.exc = "none" THEN Attempt(r, tries[c])
                  ELSE Fails(observed.exc, FALSE, "None")
       IN  /\ events' = [events EXCEPT ![c] = dispatch_request(@, out.assigned)]
           /\ published' = [published EXCEPT ![c] = r]
           /\ response' = [response EXCEPT ![c] = r]
           /\ resolved_data' =
                  [resolved_data EXCEPT ![c] = IF out.assigned THEN out.resolved ELSE @]
           /\ session_lock' = LockAfter(c, out.kind)
           /\ IF out.kind = "sleep"
              THEN /\ pc' = [pc EXCEPT ![c] = "sleeping"]
                   /\ delay' = [delay EXCEPT ![c] = out.delay]
                   /\ UNCHANGED <<closed, file, result>>
              ELSE /\ pc' = [pc EXCEPT ![c] = "done"]
                   /\ closed' = [closed EXCEPT ![c] = files[c] /\ out.close]
                   /\ file' = [file EXCEPT ![c] = IF out.close THEN CloseFiles(@) ELSE @]
                   /\ result' = [result EXCEPT ![c] =
                          [tag |-> out.kind, exc |-> out.exc, value |-> out.value,
                           exit |-> "attempt"]]
                   /\ UNCHANGED delay
    /\ UNCHANGED <<session, waiters, files, tries, attempts, slept, upload, dl, dlresult>>
    /\ UNCHANGED eventvars
    /\ UNCHANGED cachevars
    /\ UNCHANGED ctx
    /\ UNCHANGED compared
    /\ limited' = [limited EXCEPT ![c] = @ \/ IsRateLimited(r.status)]
    /\ UNCHANGED permissions
    /\ UNCHANGED granted
    /\ UNCHANGED permitted

\* The sleep ends and the loop goes on (`continue`); when the loop has run out
\* the lock is released, the file parts are closed and the error of the last
\* status is raised (lines 273-282).
Wake(c) ==
    /\ pc[c] = "sleeping"
    /\ slept' = [slept EXCEPT ![c] = @ + delay[c]]
    /\ LET t == Continue(tries[c], response[c].status)
       IN  IF t < MaxTries
           THEN /\ tries' = [tries EXCEPT ![c] = t]
                /\ pc' = [pc EXCEPT ![c] = "attempt"]
                /\ UNCHANGED <<session_lock, closed, file, result>>
           ELSE /\ pc' = [pc EXCEPT ![c] = "done"]
                /\ session_lock' = NoCaller
                /\ closed' = [closed EXCEPT ![c] = files[c]]
                /\ file' = [file EXCEPT ![c] = CloseFiles(@)]
                /\ result' = [result EXCEPT ![c] =
                       [tag |-> "raise", exc |-> ExhaustedError(response[c].status),
                        value |-> resolved_data[c], exit |-> "exhausted"]]
                /\ UNCHANGED tries
    /\ UNCHANGED <<session, waiters, files, attempts, events, response,
                   resolved_data, delay, upload, published, dl, dlresult>>
    /\ UNCHANGED eventvars
    /\ UNCHANGED cachevars
    /\ UNCHANGED ctx
    /\ UNCHANGED compared
    /\ UNCHANGED limited
    /\ UNCHANGED permissions
    /\ UNCHANGED granted
    /\ UNCHANGED permitted

\* An exception raised at an await of the loop: by the exchange (the
\* connection fails, aiohttp.ClientError) or in a sleep (the task is
\* cancelled, CancelledError).  It propagates out of HTTP.request: the lock is
\* released on the way, the statements that close the files are not run.
Abort(c) ==
    /\ pc[c] \in {"exchange", "sleeping"}
    /\ pc' = [pc EXCEPT ![c] = "done"]
    /\ session_lock' = LockOnException(c)
    /\ result' = [result EXCEPT ![c] =
           [tag |-> "raise",
            exc |-> IF pc[c] = "exchange" THEN "ClientError" ELSE "CancelledError",
            value |-> "None",
            exit |-> IF pc[c] = "exchange" THEN "exchange" ELSE "sleep"]]
    /\ UNCHANGED <<session, waiters, files, closed, tries, attempts, events, response,
                   resolved_data, delay, slept, upload, file, published, dl, dlresult>>
    /\ UNCHANGED eventvars
    /\ UNCHANGED cachevars
    /\ UNCHANGED ctx
    /\ UNCHANGED compared
    /\ UNCHANGED limited
    /\ UNCHANGED permissions
    /\ UNCHANGED granted
    /\ UNCHANGED permitted

\* HTTP.get_from_url, lines 287-290: the download starts its one exchange on
\* the shared session without taking the lock.
Download(d) ==
    /\ dl[d] = "idle"
    /\ session' = "open"
    /\ dl' = [dl EXCEPT ![d] = "exchange"]
    /\ dlresult' = [dlresult EXCEPT ![d].exchanges = @ + 1]
    /\ UNCHANGED <<session_lock, waiters, pc>>
    /\ UNCHANGED callvars
    /\ UNCHANGED eventvars
    /\ UNCHANGED cachevars
    /\ UNCHANGED ctx
    /\ UNCHANGED compared
    /\ UNCHANGED limited
    /\ UNCHANGED permissions
    /\ UNCHANGED granted
    /\ UNCHANGED permitted

\* Lines 291-298: the download's response.
Downloaded(d, status) ==
    /\ dl[d] = "exchange"
    /\ dl' = [dl EXCEPT ![d] = "done"]
    /\ dlresult' = [dlresult EXCEPT ![d] =
                       [tag |-> DownloadResult(status).tag,
                        exc |-> DownloadResult(status).exc,
                        status |-> status, exchanges |-> @.exchanges]]
    /\ UNCHANGED <<session, session_lock, waiters, pc>>
    /\ UNCHANGED callvars
    /\ UNCHANGED eventvars
    /\ UNCHANGED cachevars
    /\ UNCHANGED ctx
    /\ UNCHANGED compared
    /\ UNCHANGED limited
    /\ UNCHANGED permissions
    /\ UNCHANGED granted
    /\ UNCHANGED permitted

\* Client.wait_for (lines 324-334): a future is created and appended with the
\* check to the waiters of the event; the caller awaits it, with or without a
\* timeout.
WaitFor(w, check, timeout) ==
    /\ wait[w].at = "idle"
    /\ future' = [future EXCEPT ![w] = Pending]
    /\ client_waiters' = Append(client_waiters, [future |-> w, condition |-> check])
    /\ wait' = [wait EXCEPT ![w] = [at |-> "waiting", timeout |-> timeout, value |-> "None"]]
    /\ UNCHANGED <<last, listeners, listened, tasks>>
    /\ UNCHANGED <<session, session_lock, waiters, pc, dl, dlresult>>
    /\ UNCHANGED callvars
    /\ UNCHANGED cachevars
    /\ UNCHANGED ctx
    /\ UNCHANGED compared
    /\ UNCHANGED limited
    /\ UNCHANGED permissions
    /\ UNCHANGED granted
    /\ UNCHANGED permitted

\* Client.dispatch('x', payload), lines 162-193: the listeners of on_x are made
\* tasks, then the loop over the waiters runs; an exception raised while the
\* listeners are called leaves dispatch before the waiters are looked at.
\* (Client has no method on_x of its own for line 164 to find.)
Dispatch(payload) ==
    /\ LET made == dispatch_listeners(1, listeners["on_x"], payload, <<>>)
           st == IF made.exc = "none"
                 THEN dispatch_waiters(1,
                          [list |-> client_waiters, future |-> future,
                           evaluated |-> {}, resolved |-> {}],
                          payload)
                 ELSE [list |-> client_waiters, future |-> future,
                       evaluated |-> {}, resolved |-> {}]
       IN  /\ tasks' = made.tasks
           /\ client_waiters' = st.list
           /\ future' = st.future
           /\ last' = [payload |-> payload,
                       before |-> client_waiters,
                       pending |-> {w \in Waiters : future[w] = Pending},
                       evaluated |-> st.evaluated,
                       resolved |-> st.resolved,
                       callables |-> listeners["on_x"],
                       exc |-> made.exc]
    /\ UNCHANGED <<wait, listeners, listened>>
    /\ UNCHANGED <<session, session_lock, waiters, pc, dl, dlresult>>
    /\ UNCHANGED callvars
    /\ UNCHANGED cachevars
    /\ UNCHANGED ctx
    /\ UNCHANGED compared
    /\ UNCHANGED limited
    /\ UNCHANGED permissions
    /\ UNCHANGED granted
    /\ UNCHANGED permitted

\* asyncio.wait_for(future, timeout=timeout), line 331: the timeout passes
\* while the future is pending; the future is cancelled and the caller gets
\* asyncio.TimeoutError.
Timeout(w) ==
    /\ wait[w].at = "waiting" /\ wait[w].timeout
    /\ future[w] = Pending
    /\ future' = [future EXCEPT ![w] = Cancelled]
    /\ wait' = [wait EXCEPT ![w].at = "timeout"]
    /\ UNCHANGED <<client_waiters, last, listeners, listened, tasks>>
    /\ UNCHANGED <<session, session_lock, waiters, pc, dl, dlresult>>
    /\ UNCHANGED callvars
    /\ UNCHANGED cachevars
    /\ UNCHANGED ctx
    /\ UNCHANGED compared
    /\ UNCHANGED limited
    /\ UNCHANGED permissions
    /\ UNCHANGED granted
    /\ UNCHANGED permitted

\* The awaited future has a result: wait_for returns it.
Resolve(w) ==
    /\ wait[w].at = "waiting"
    /\ future[w].state = "done"
    /\ wait' = [wait EXCEPT ![w].at = "returned", ![w].value = future[w].result]
    /\ UNCHANGED <<client_waiters, future, last, listeners, listened, tasks>>
    /\ UNCHANGED <<session, session_lock, waiters, pc, dl, dlresult>>
    /\ UNCHANGED callvars
    /\ UNCHANGED cachevars
    /\ UNCHANGED ctx
    /\ UNCHANGED compared
    /\ UNCHANGED limited
    /\ UNCHANGED permissions
    /\ UNCHANGED granted
    /\ UNCHANGED permitted

\* @client.listen(event) applied to func (lines 195-232).
Listen(event, func) ==
    /\ Len(listeners["on_x"]) + Len(listeners["on_y"]) + Len(listeners["on_request"])
           < MaxListeners
    /\ LET out == listen(listeners, event, func)
       IN  /\ listeners' = out.registry
           /\ listened' = [event |-> event, func |-> func, exc |-> out.exc]
    /\ UNCHANGED <<client_waiters, future, wait, last, tasks>>
    /\ UNCHANGED <<session, session_lock, waiters, pc, dl, dlresult>>
    /\ UNCHANGED callvars
    /\ UNCHANGED cachevars
    /\ UNCHANGED ctx
    /\ UNCHANGED compared
    /\ UNCHANGED limited
    /\ UNCHANGED permissions
    /\ UNCHANGED granted
    /\ UNCHANGED permitted

\* The event loop runs one of the tasks a dispatch created.
RunTask(i) ==
    /\ i \in 1..Len(tasks)
    /\ tasks[i].state = "scheduled"
    /\ tasks' = [tasks EXCEPT ![i].state = RunOutcome(tasks[i].func)]
    /\ UNCHANGED <<client_waiters, future, wait, last, listeners, listened>>
    /\ UNCHANGED <<session, session_lock, waiters, pc, dl, dlresult>>
    /\ UNCHANGED callvars
    /\ UNCHANGED cachevars
    /\ UNCHANGED ctx
    /\ UNCHANGED compared
    /\ UNCHANGED limited
    /\ UNCHANGED permissions
    /\ UNCHANGED granted
    /\ UNCHANGED permitted

\* HTTP.request as the cache operations see it: it is awaited, and returns
\* the payload (ok) or raises (lines 206-284).  The rest of each method runs
\* when the request has returned.

\* Client.fetch_user(id) (lines 395-420); the server answers with the user of
\* that id.
FetchUser(id, ok, data) ==
    /\ data.id = id
    /\ LET stored == store_user(users, data)
       IN  /\ users' = IF ok THEN stored.users ELSE users
           /\ fetched' = [NoFetch EXCEPT !.op = "fetch_user", !.arg = id, !.ok = ok,
                              !.data = data,
                              !.exc = IF ok THEN stored.exc ELSE "HTTPException"]
    /\ UNCHANGED <<client_user, domains>>
    /\ UNCHANGED <<session, session_lock, waiters, pc, dl, dlresult>>
    /\ UNCHANGED callvars
    /\ UNCHANGED eventvars
    /\ UNCHANGED ctx
    /\ UNCHANGED compared
    /\ UNCHANGED limited
    /\ UNCHANGED permissions
    /\ UNCHANGED granted
    /\ UNCHANGED permitted

\* Client.fetch_client_user (lines 479-492).
FetchClientUser(ok, data) ==
    /\ LET stored == store_client_user(client_user, data)
       IN  /\ client_user' = IF ok THEN stored.client_user ELSE client_user
           /\ fetched' = [NoFetch EXCEPT !.op = "fetch_client_user", !.ok = ok,
                              !.data = data,
                              !.exc = IF ok THEN stored.exc ELSE "HTTPException"]
    /\ UNCHANGED <<users, domains>>
    /\ UNCHANGED <<session, session_lock, waiters, pc, dl, dlresult>>
    /\ UNCHANGED callvars
    /\ UNCHANGED eventvars
    /\ UNCHANGED ctx
    /\ UNCHANGED compared
    /\ UNCHANGED limited
    /\ UNCHANGED permissions
    /\ UNCHANGED granted
    /\ UNCHANGED permitted

\* Client.fetch_domains (lines 494-510): every entry is stored, and the
\* values of the cache are returned.
FetchDomains(ok, entries) ==
    /\ LET stored == store_domains(domains, entries)
       IN  /\ domains' = IF ok THEN stored.domains ELSE domains
           /\ fetched' = [NoFetch EXCEPT !.op = "fetch_domains", !.ok = ok,
                              !.entries = entries,
                              !.exc = IF ok THEN stored.exc ELSE "HTTPException",
                              !.returned = IF ok /\ stored.exc = "none"
                                           THEN stored.domains ELSE <<>>]
    /\ UNCHANGED <<users, client_user>>
    /\ UNCHANGED <<session, session_lock, waiters, pc, dl, dlresult>>
    /\ UNCHANGED callvars
    /\ UNCHANGED eventvars
    /\ UNCHANGED ctx
    /\ UNCHANGED compared
    /\ UNCHANGED limited
    /\ UNCHANGED permissions
    /\ UNCHANGED granted
    /\ UNCHANGED permitted

\* Client.create_domain(url) (lines 638-659): the request, then the owner is
\* the cached client user or, without one, the fetched one (its request
\* returns data, or raises when ok2 is false), then the domain is stored.
CreateDomain(url, ok, ok2, data) ==
    /\ LET owner == IF client_user # NoUser
                    THEN [exc |-> "none", client_user |-> client_user]
                    ELSE IF ok2 THEN store_client_user(client_user, data)
                    ELSE [exc |-> "HTTPException", client_user |-> client_user]
           stored == store_domain(domains,
                         [name |-> url, uploads |-> 0, owner |-> owner.client_user.id])
       IN  /\ client_user' = IF ok THEN owner.client_user ELSE client_user
           /\ domains' = IF ok /\ owner.exc = "none" THEN stored.domains ELSE domains
           /\ fetched' = [NoFetch EXCEPT !.op = "create_domain", !.arg = url,
                              !.ok = ok /\ owner.exc = "none" /\ stored.exc = "none",
                              !.exc = IF ~ok THEN "HTTPException"
                                      ELSE IF owner.exc # "none" THEN owner.exc
                                      ELSE stored.exc]
    /\ UNCHANGED users
    /\ UNCHANGED <<session, session_lock, waiters, pc, dl, dlresult>>
    /\ UNCHANGED callvars
    /\ UNCHANGED eventvars
    /\ UNCHANGED ctx
    /\ UNCHANGED compared
    /\ UNCHANGED limited
    /\ UNCHANGED permissions
    /\ UNCHANGED granted
    /\ UNCHANGED permitted

\* Domain.delete (domain.py lines 124-137) of a Domain object with that url.
DomainDelete(url, ok) ==
    /\ domains' = delete(domains, url, ok)
    /\ fetched' = [NoFetch EXCEPT !.op = "delete_domain", !.arg = url, !.ok = ok,
                       !.exc = IF ok THEN "none" ELSE "HTTPException"]
    /\ UNCHANGED <<users, client_user>>
    /\ UNCHANGED <<session, session_lock, waiters, pc, dl, dlresult>>
    /\ UNCHANGED callvars
    /\ UNCHANGED eventvars
    /\ UNCHANGED ctx
    /\ UNCHANGED compared
    /\ UNCHANGED limited
    /\ UNCHANGED permissions
    /\ UNCHANGED granted
    /\ UNCHANGED permitted

\* Client.__aenter__ (client.py 134-141): a session is created when there is
\* none; with fetch_client_user_on_start the client user is fetched, and a
\* failure there leaves __aenter__ by the exception: the block is not entered
\* and __aexit__ is not called.
Enter(on_start, ok, data) ==
    /\ ctx.pos # "in"
    /\ session' = IF session = "none" THEN "open" ELSE session
    /\ LET stored == store_client_user(client_user, data)
           exc == IF ~on_start THEN "none"
                  ELSE IF session' = "closed" THEN "RuntimeError"
                  ELSE IF ~ok THEN "HTTPException"
                  ELSE stored.exc
       IN  /\ client_user' = IF on_start /\ exc = "none" THEN stored.client_user
                             ELSE client_user
           /\ fetched' = IF on_start
                         THEN [NoFetch EXCEPT !.op = "fetch_client_user",
                                  !.ok = ok /\ session' # "closed",
                                  !.data = data, !.exc = exc]
                         ELSE fetched
           /\ ctx' = [ctx EXCEPT !.pos = IF exc = "none" THEN "in" ELSE "failed",
                                 !.exc = exc]
    /\ UNCHANGED <<users, domains>>
    /\ UNCHANGED <<session_lock, waiters, pc, dl, dlresult, compared>>
    /\ UNCHANGED callvars
    /\ UNCHANGED eventvars
    /\ UNCHANGED limited
    /\ UNCHANGED permissions
    /\ UNCHANGED granted
    /\ UNCHANGED permitted

\* The end of the `async with` block: Client.__aexit__.
Exit ==
    /\ ctx.pos = "in"
    /\ LET left == aexit(session)
       IN  /\ session' = left.session
           /\ ctx' = [ctx EXCEPT !.pos = "exited", !.exc = left.exc]
    /\ UNCHANGED <<session_lock, waiters, pc, dl, dlresult, compared>>
    /\ UNCHANGED callvars
    /\ UNCHANGED eventvars
    /\ UNCHANGED cachevars
    /\ UNCHANGED limited
    /\ UNCHANGED permissions
    /\ UNCHANGED granted
    /\ UNCHANGED permitted

\* `await client.cleanup()` called by hand inside the block.
Cleanup ==
    /\ ctx.pos = "in"
    /\ LET left == cleanup(session)
       IN  /\ session' = left.session
           /\ ctx' = [ctx EXCEPT !.exc = left.exc]
    /\ UNCHANGED <<session_lock, waiters, pc, dl, dlresult, compared>>
    /\ UNCHANGED callvars
    /\ UNCHANGED eventvars
    /\ UNCHANGED cachevars
    /\ UNCHANGED limited
    /\ UNCHANGED permissions
    /\ UNCHANGED granted
    /\ UNCHANGED permitted

\* The calls on the Permissions object.  Each awaits one request, which
\* returns (ok) or raises; granted follows what the requests that returned
\* have told the server.

\* Permissions.fetch (lines 96-109): the answer is the list of the levels m.
PermissionsFetch(ok, m) ==
    /\ LET parsed == parse_permissions(users, PermissionList(m))
           exc == IF ok THEN parsed.exc ELSE "HTTPException"
       IN  /\ users' = IF ok THEN parsed.users ELSE users
           /\ permissions' = IF exc = "none" THEN parsed.permissions ELSE permissions
           /\ granted' = IF ok THEN [set |-> TRUE, levels |-> m] ELSE granted
           /\ permitted' = [NoPermit EXCEPT !.op = "fetch", !.ok = ok, !.exc = exc]
    /\ UNCHANGED <<client_user, domains, fetched>>
    /\ UNCHANGED <<session, session_lock, waiters, pc, dl, dlresult>>
    /\ UNCHANGED callvars
    /\ UNCHANGED eventvars
    /\ UNCHANGED ctx
    /\ UNCHANGED compared
    /\ UNCHANGED limited

\* Permissions.add (lines 111-145) and Permissions.edit (lines 168-199), which
\* differ by their request: result['user'] is stored, and the level is put
\* under the stored user when the mapping is neither None nor empty.
PermissionsSet(op, id, level, ok) ==
    /\ LET stored == store_user(users, [id |-> id, username |-> "n1"])
           put == IF Truthy(permissions)
                  THEN SetLevel(permissions, stored.user, level)
                  ELSE [exc |-> "none", permissions |-> permissions]
           exc == IF ~ok THEN "HTTPException"
                  ELSE IF stored.exc # "none" THEN stored.exc
                  ELSE put.exc
       IN  /\ users' = IF ok THEN stored.users ELSE users
           /\ permissions' = IF exc = "none" THEN put.permissions ELSE permissions
           /\ granted' = IF ok THEN [granted EXCEPT !.levels[id] = level] ELSE granted
           /\ permitted' = [op |-> op, user |-> id, level |-> level, ok |-> ok, exc |-> exc]
    /\ UNCHANGED <<client_user, domains, fetched>>
    /\ UNCHANGED <<session, session_lock, waiters, pc, dl, dlresult>>
    /\ UNCHANGED callvars
    /\ UNCHANGED eventvars
    /\ UNCHANGED ctx
    /\ UNCHANGED compared
    /\ UNCHANGED limited

\* Permissions.remove (lines 147-166), called with a User object of that id.
PermissionsRemove(id, ok) ==
    /\ LET popped == IF Truthy(permissions)
                     THEN PopLevel(permissions, [id |-> id, username |-> "n1"])
                     ELSE [exc |-> "none", permissions |-> permissions]
           exc == IF ~ok THEN "NotFound" ELSE popped.exc
       IN  /\ permissions' = IF exc = "none" THEN popped.permissions ELSE permissions
           /\ granted' = IF ok THEN [granted EXCEPT !.levels[id] = "absent"] ELSE granted
           /\ permitted' = [NoPermit EXCEPT !.op = "remove", !.user = id, !.ok = ok,
                                !.exc = exc]
    /\ UNCHANGED cachevars
    /\ UNCHANGED <<session, session_lock, waiters, pc, dl, dlresult>>
    /\ UNCHANGED callvars
    /\ UNCHANGED eventvars
    /\ UNCHANGED ctx
    /\ UNCHANGED compared
    /\ UNCHANGED limited

\* `a == b` on two objects that carry an id.
Compare(a, b) ==
    /\ compared' = [a |-> a, b |-> b, result |-> eq(a, b)]
    /\ UNCHANGED <<session, session_lock, waiters, pc, dl, dlresult>>
    /\ UNCHANGED callvars
    /\ UNCHANGED eventvars
    /\ UNCHANGED cachevars
    /\ UNCHANGED ctx
    /\ UNCHANGED limited
    /\ UNCHANGED permissions
    /\ UNCHANGED granted
    /\ UNCHANGED permitted

\* ----------------------------------------------------------- specifications
\* Concurrent callers (without file parts) and downloads, each attempt answered
\* by one of the few representative responses.
Next ==
    \/ \E c \in Callers : Request(c, NoFile)
    \/ \E c \in Callers : Acquire(c)
    \/ \E c \in Callers : Send(c)
    \/ \E c \in Callers, r \in FewResponses : Receive(c, r)
    \/ \E c \in Callers : Wake(c)
    \/ \E d \in Downloaders : Download(d)
    \/ \E d \in Downloaders, st \in DownloadStatuses : Downloaded(d, st)

Spec == Init /\ [][Next]_vars

\* Concurrent requests whose exchanges and sleeps may fail; every exchange is
\* answered or fails, every sleep ends, and the lock wakes its first waiter.
NextLock ==
    \/ \E c \in Callers : Request(c, NoFile)
    \/ \E c \in Callers : Acquire(c)
    \/ \E c \in Callers : Send(c)
    \/ \E c \in Callers, r \in FewResponses : Receive(c, r)
    \/ \E c \in Callers : Wake(c)
    \/ \E c \in Callers : Abort(c)

SpecLock ==
    /\ Init /\ [][NextLock]_vars
    /\ \A c \in Callers :
           /\ WF_vars(Acquire(c))
           /\ WF_vars(Send(c))
           /\ WF_vars(\E r \in FewResponses : Receive(c, r))
           /\ WF_vars(Wake(c))

\* One request, with or without a file part, while listeners are registered
\* for the `request` event.
ObserverCallbacks == {f \in Callbacks : f.name = "handler"}

NextObserved ==
    \/ \E func \in ObserverCallbacks : Listen("on_request", func)
    \/ \E f \in {NoFile} \cup Files : Request(1, f)
    \/ Send(1)
    \/ \E r \in FewResponses : Receive(1, r)
    \/ Wake(1)

SpecObserved == Init /\ [][NextObserved]_vars

\* One request, each attempt answered by any response of the alphabet.
NextOne ==
    \/ \E f \in {NoFile} \cup Files : Request(1, f)
    \/ Send(1)
    \/ \E r \in AllResponses : Receive(1, r)
    \/ Wake(1)

SpecOne == Init /\ [][NextOne]_vars

\* One upload of a File built from any fp and filename, each attempt answered
\* by one of the responses that lead to the different ways out of the loop.
UploadResponses ==
    {Response(200, <<JsonType, "ok_d1">>, "absent", "absent", "absent"),
     Response(200, <<JsonType, "ok_nodata">>, "absent", "absent", "absent"),
     Response(404, <<JsonType, "fail_e1">>, "absent", "absent", "absent"),
     Response(500, <<OtherType, "html">>, "absent", "absent", "absent"),
     Response(503, <<OtherType, "html">>, "absent", "absent", "absent"),
     Response(429, <<JsonType, "fail_e1">>, "0", "0", "absent"),
     Response(429, <<OtherType, "html">>, "absent", "absent", "absent")}

NextUpload ==
    \/ \E fp \in FilePointers, fn \in FilenameArgs : Upload(1, fp, fn)
    \/ Send(1)
    \/ \E r \in UploadResponses : Receive(1, r)
    \/ Wake(1)

SpecUpload == Init /\ [][NextUpload]_vars

\* Calls of wait_for for one event, its dispatches and the timeouts.
NextEvents ==
    \/ \E w \in Waiters, ck \in Checks, t \in BOOLEAN : WaitFor(w, ck, t)
    \/ \E p \in Payloads : Dispatch(p)
    \/ \E w \in Waiters : Timeout(w)
    \/ \E w \in Waiters : Resolve(w)

SpecEvents == Init /\ [][NextEvents]_vars

\* Registrations of listeners, dispatches of the event and the tasks they
\* create.
NextListen ==
    \/ \E ev \in EventArgs, func \in Callbacks : Listen(ev, func)
    \/ \E p \in Payloads : Dispatch(p)
    \/ \E i \in 1..MaxListeners : RunTask(i)

SpecListen == Init /\ [][NextListen]_vars

\* The operations on the caches, each with the outcome of its request.
NextCache ==
    \/ \E id \in UserIds, ok \in BOOLEAN, data \in UserData : FetchUser(id, ok, data)
    \/ \E ok \in BOOLEAN, data \in UserData : FetchClientUser(ok, data)
    \/ \E ok \in BOOLEAN, entries \in DomainsResponses : FetchDomains(ok, entries)
    \/ \E url \in DomainUrls, ok, ok2 \in BOOLEAN, data \in UserData :
           CreateDomain(url, ok, ok2, data)
    \/ \E url \in DomainUrls, ok \in BOOLEAN : DomainDelete(url, ok)

SpecCache == Init /\ [][NextCache]_vars

\* A client used as a context manager: entered, used for domain operations
\* while its session is open, cleaned up by hand or not, and left.
NextSession ==
    \/ \E on_start, ok \in BOOLEAN, data \in UserData : Enter(on_start, ok, data)
    \/ Exit
    \/ Cleanup
    \/ /\ ctx.pos = "in"
       /\ \E ok \in BOOLEAN, entries \in DomainsResponses :
              FetchDomains(ok /\ session = "open", entries)
    \/ /\ ctx.pos = "in"
       /\ \E url \in DomainUrls, ok \in BOOLEAN : DomainDelete(url, ok /\ session = "open")

SpecSession == Init /\ [][NextSession]_vars

\* The calls on the Permissions object of one upload.
NextPermissions ==
    \/ \E ok \in BOOLEAN, m \in LevelMaps : PermissionsFetch(ok, m)
    \/ \E op \in {"add", "edit"}, id \in UserIds, level \in PermissionLevels,
          ok \in BOOLEAN : PermissionsSet(op, id, level, ok)
    \/ \E id \in UserIds, ok \in BOOLEAN : PermissionsRemove(id, ok)

SpecPermissions == Init /\ [][NextPermissions]_vars

\* Comparisons of objects that carry an id.
NextEquality == \E a, b \in IdObjects : Compare(a, b)

SpecEquality == Init /\ [][NextEquality]_vars

\* ------------------------------------------------------- claim vocabulary
Done(c) == pc[c] = "done"

Raised(c) == Done(c) /\ result[c].tag = "raise"

Returned(c) == Done(c) /\ result[c].tag = "return"

\* The call holds the lock and has not ended.
InProgress(c) == pc[c] \in {"attempt", "exchange", "sleeping"}

\* How many exchanges are in flight on the session.
InFlight ==
    Cardinality({c \in Callers : pc[c] = "exchange"})
    + Cardinality({d \in Downloaders : dl[d] = "exchange"})

RetriedStatuses == {429, 500, 502, 504}

\* The body reaches the status checks: it is not decoded (the Content-Type is
\* not the JSON one), or it is an envelope with its data or its error object.
WellFormed(r) ==
    \/ r.ctype # JsonType
    \/ r.body \in {"ok_d1", "ok_d2", "fail_e1"}

\* The headers of a 429 give a sleep: a numeric x-ratelimit-reset and, when
\* that is zero without x-ratelimit-remaining, a numeric Retry-After.
UsableRateHeaders(r) ==
    /\ r.reset \notin {"absent", "x"}
    /\ (r.reset = "0" /\ r.remaining = "absent") => r.retry \notin {"absent", "x"}

\* A JSON document {"success": true, "data": ...} and its data field.
SuccessEnvelopes == {"ok_d1", "ok_d2", "ok_null"}

DataField(body) ==
    CASE body = "ok_d1" -> "d1"
      [] body = "ok_d2" -> "d2"
      [] OTHER -> "null"

\* ------------------------------------------------------------------ claims
\* C1: one call of HTTP.request performs at most 5 HTTP attempts, whatever the
\* responses are; a retry after a 429 uses up a try like a retry after
\* 500/502/504.
C1_AtMostFiveAttempts ==
    \A c \in Callers : attempts[c] <= MaxTries /\ tries[c] < MaxTries

\* A call that ran out of tries on a 429 after sleeping 1+3+5+7 seconds of
\* backoff: retries of both kinds within the same five attempts.
C1_Witness ==
    \E c \in Callers :
        /\ Raised(c) /\ result[c].exit = "exhausted"
        /\ attempts[c] = MaxTries
        /\ response[c].status = 429
        /\ slept[c] = 16

\* C2 (as claimed): at most one HTTP exchange is in flight on the session,
\* exchanges of HTTP.request and of HTTP.get_from_url counted together.
C2_OneExchangeInFlight == InFlight <= 1

\* C3: while one caller's request is between taking the lock and its end
\* (attempts, backoff and rate-limit sleeps included), no other caller's
\* request has an attempt, an exchange or a sleep of its own.
C3_NoInterleaving ==
    \A c, d \in Callers :
        (c # d /\ InProgress(c)) => pc[d] \in {"idle", "waiting", "done"}

\* The first caller sleeps between two attempts while the second one waits.
C3_Witness ==
    \E c, d \in Callers :
        /\ c # d
        /\ pc[c] = "sleeping" /\ delay[c] > 0 /\ attempts[c] >= 2
        /\ pc[d] = "waiting"

\* C4 (as claimed): a transient response (429, 500, 502, 504) before the fifth
\* attempt never ends the call, whatever its body and headers, so that the
\* 2xx response that follows is returned: a call that ended on a transient
\* status made all 5 attempts, and a call that ended on a 2xx success
\* envelope returned its payload.
C4_TransientRecovered ==
    \A c \in Callers :
        Done(c) =>
            /\ response[c].status \in RetriedStatuses => attempts[c] = MaxTries
            /\ (/\ IsOk(response[c].status)
                /\ response[c].ctype = JsonType
                /\ response[c].body \in {"ok_d1", "ok_d2"})
               => (Returned(c) /\ result[c].value = DataField(response[c].body))

\* C5 (as claimed): a call whose 5 attempts all ended without a 2xx raises
\* TixteServerError when the last status is >= 500 and HTTPException otherwise.
C5_LastStatusKind ==
    \A c \in Callers :
        (Done(c) /\ attempts[c] = MaxTries /\ ~IsOk(response[c].status)) =>
            /\ Raised(c)
            /\ result[c].exc =
                   IF response[c].status >= 500 THEN "TixteServerError" ELSE "HTTPException"

\* C5 (amended): when the fifth attempt also ends in a retried status (429,
\* 500, 502, 504), with a body that is text or a well-formed envelope and, on
\* a 429, usable rate-limit headers, the call raises TixteServerError when that
\* status is >= 500 and HTTPException otherwise.
C5_ExhaustedKind ==
    \A c \in Callers :
        (/\ Done(c) /\ attempts[c] = MaxTries
         /\ response[c].status \in RetriedStatuses
         /\ WellFormed(response[c])
         /\ response[c].status = 429 => UsableRateHeaders(response[c])) =>
            /\ Raised(c)
            /\ result[c].exc =
                   IF response[c].status >= 500 THEN "TixteServerError" ELSE "HTTPException"

\* Five attempts, the last one answered 502.
C5_Witness ==
    \E c \in Callers :
        /\ Raised(c) /\ attempts[c] = MaxTries
        /\ response[c].status = 502
        /\ result[c].exit = "exhausted"

\* C6 (as claimed): once the last response has status 402, 403 or 404 the call
\* has ended, without a sleep or a further attempt, by raising
\* PaymentRequired, Forbidden or NotFound.
C6_TypedErrorAtOnce ==
    \A c \in Callers :
        response[c].status \in {402, 403, 404} =>
            /\ Raised(c)
            /\ result[c].exc =
                   CASE response[c].status = 402 -> "PaymentRequired"
                     [] response[c].status = 403 -> "Forbidden"
                     [] OTHER -> "NotFound"

\* C6 (amended): the same, for a response whose body is text or a well-formed
\* envelope.
C6_TypedErrorWhenDecoded ==
    \A c \in Callers :
        (response[c].status \in {402, 403, 404} /\ WellFormed(response[c])) =>
            /\ Raised(c)
            /\ result[c].exit = "attempt"
            /\ attempts[c] = events[c]
            /\ result[c].exc =
                   CASE response[c].status = 402 -> "PaymentRequired"
                     [] response[c].status = 403 -> "Forbidden"
                     [] OTHER -> "NotFound"

\* A 403 answered to the third attempt.
C6_Witness ==
    \E c \in Callers :
        /\ Raised(c) /\ attempts[c] = 3
        /\ response[c].status = 403
        /\ result[c].exc = "Forbidden"

\* C7: a 503 response is never followed by a sleep or another attempt: the
\* call has raised; when it is the first response the call made exactly one
\* attempt and did not sleep.
C7_NoRetryOn503 ==
    \A c \in Callers :
        response[c].status = 503 =>
            /\ Raised(c)
            /\ attempts[c] = events[c]
            /\ events[c] = 1 => (attempts[c] = 1 /\ slept[c] = 0 /\ tries[c] = 0)

\* The first response is a 503.
C7_Witness ==
    \E c \in Callers :
        /\ Raised(c) /\ attempts[c] = 1 /\ events[c] = 1
        /\ response[c].status = 503

\* C8 (as claimed): the error raised for a 503 response is HTTPException
\* itself.
C8_Generic503 ==
    \A c \in Callers :
        (Raised(c) /\ response[c].status = 503) => result[c].exc = "HTTPException"

\* C8 (amended): the error raised for a 503 response whose body is text or a
\* well-formed envelope is TixteServerError.
C8_ServerError503 ==
    \A c \in Callers :
        (response[c].status = 503 /\ WellFormed(response[c])) =>
            (Raised(c) /\ result[c].exc = "TixteServerError")

\* A 503 with a failure envelope.
C8_Witness ==
    \E c \in Callers :
        /\ Raised(c) /\ response[c].status = 503
        /\ response[c].ctype = JsonType /\ response[c].body = "fail_e1"

\* C9 (as claimed): a 2xx response to the first attempt whose body is a
\* success envelope makes the call return the envelope's data field.
C9_ReturnsData ==
    \A c \in Callers :
        (/\ events[c] = 1
         /\ IsOk(response[c].status)
         /\ response[c].body \in SuccessEnvelopes) =>
            (Returned(c) /\ result[c].value = DataField(response[c].body))

\* C9 (amended): the same, for a response whose Content-Type is exactly
\* application/json; charset=utf-8 and whose data field is not null.
C9_ReturnsDecodedData ==
    \A c \in Callers :
        (/\ events[c] = 1
         /\ IsOk(response[c].status)
         /\ response[c].ctype = JsonType
         /\ response[c].body \in SuccessEnvelopes
         /\ DataField(response[c].body) # "null") =>
            (Returned(c) /\ result[c].value = DataField(response[c].body))

\* A 204 to the first attempt, carrying the payload d2.
C9_Witness ==
    \E c \in Callers :
        /\ Returned(c) /\ events[c] = 1
        /\ response[c].status = 204
        /\ response[c].body = "ok_d2" /\ result[c].value = "d2"

\* C10 (as claimed): a 2xx response carrying a failure envelope makes the call
\* raise; the call never returns a value.
C10_FailureEnvelopeRaises ==
    \A c \in Callers :
        (/\ Done(c)
         /\ IsOk(response[c].status)
         /\ response[c].ctype = JsonType
         /\ response[c].body = "fail_e1") => Raised(c)

\* C11: a decoded envelope with success false and no error object, or with
\* success true and no data field, makes the call fail with TixteException,
\* whatever the status is; nothing is returned and no value is carried.
C11_MismatchRaises ==
    \A c \in Callers :
        (/\ response[c] # NoResponse
         /\ response[c].ctype = JsonType
         /\ response[c].body \in {"fail_noerr", "ok_nodata"}) =>
            /\ Raised(c)
            /\ result[c].exc = "TixteException"
            /\ result[c].value = "None"

\* A 200 whose envelope says success without a data field, and a 404 whose
\* envelope says failure without an error object.
C11_Witness ==
    \E c \in Callers :
        /\ Raised(c) /\ result[c].exc = "TixteException"
        /\ response[c].ctype = JsonType
        /\ \/ response[c].status = 200 /\ response[c].body = "ok_nodata"
           \/ response[c].status = 404 /\ response[c].body = "fail_noerr"

\* The call was an upload of a File built from a handle of the caller.
Borrowed(c) == file[c].given /\ upload[c].fp.io

\* The filename of the File of the upload: the argument, else the default.
GivenName(c) ==
    IF upload[c].filename = "None"
    THEN IF upload[c].fp.io THEN upload[c].fp.name ELSE basename(upload[c].fp.name)
    ELSE upload[c].filename

\* C12 (as claimed): when a call that was given file parts has ended, however
\* it ended, close() has been called on its file parts.
C12_FilesClosedOnExit ==
    \A c \in Callers : (Done(c) /\ files[c]) => (closed[c] /\ ~file[c].stubbed)

\* C13: ownership is fixed by the constructor (a File owns its handle exactly
\* when it opened it from a path); a handle is closed only when its File owns
\* it, so a handle passed in by the caller stays open on every exit path; and
\* close() restores fp.close, and closes the handle of a File that owns it.
C13_OnlyOwnedHandleClosed ==
    \A c \in Callers :
        file[c].given =>
            /\ file[c].owner = ~upload[c].fp.io
            /\ file[c].handle = "closed" => file[c].owner
            /\ closed[c] => ~file[c].stubbed
            /\ (closed[c] /\ file[c].owner) => file[c].handle = "closed"

\* An upload of a caller's handle has returned: the File was released, the
\* handle is still open.
C13_Witness ==
    \E c \in Callers :
        /\ Returned(c) /\ Borrowed(c) /\ closed[c]
        /\ ~file[c].owner /\ ~file[c].stubbed /\ file[c].handle = "open"

\* C14: an upload from a handle that is not seekable or not readable has
\* ended with ValueError, and no exchange was started for it.
C14_UnusableHandleRejected ==
    \A c \in Callers :
        (/\ upload[c] # NoUpload
         /\ upload[c].fp.io
         /\ ~(upload[c].fp.seekable /\ upload[c].fp.readable)) =>
            /\ Raised(c) /\ result[c].exc = "ValueError"
            /\ ~file[c].given
            /\ attempts[c] = 0 /\ events[c] = 0

\* A readable handle that is not seekable was refused.
C14_Witness ==
    \E c \in Callers :
        /\ upload[c].fp = Pipe
        /\ Raised(c) /\ result[c].exc = "ValueError" /\ attempts[c] = 0

\* C15 (as claimed): an upload of a File whose filename is empty or absent is
\* rejected and performs no exchange.
C15_FilenameRequired ==
    \A c \in Callers :
        (upload[c] # NoUpload /\ GivenName(c) \in {"None", ""}) => attempts[c] = 0

\* C15 (amended): an upload of a File built from a path or from a seekable
\* and readable handle is handed to HTTP.request whatever its filename is,
\* None and the empty string included: the filename is sent as it is and the
\* call ends only after an exchange.
C15_FilenameNotChecked ==
    \A c \in Callers :
        (/\ upload[c] # NoUpload
         /\ upload[c].fp.io => (upload[c].fp.seekable /\ upload[c].fp.readable)
         /\ GivenName(c) \in {"None", ""}) =>
            /\ file[c].given /\ file[c].filename = GivenName(c)
            /\ Done(c) => (attempts[c] >= 1 /\ result[c].exit # "construct")

\* An upload without a filename and one with an empty filename have returned.
C15_Witness ==
    \E c \in Callers :
        /\ Returned(c) /\ files[c] /\ attempts[c] >= 1
        /\ upload[c].fp = BytesIO
        /\ file[c].filename \in {"None", ""}

\* C16: every exchange that has been answered has dispatched one `request`
\* event, whatever the response was and whatever the attempt then did, and
\* the event carried the response of that attempt: the events of a call are
\* as many as its attempts (less the exchange still in flight).
C16_OneEventPerAttempt ==
    \A c \in Callers :
        /\ events[c] = attempts[c] - (IF pc[c] = "exchange" THEN 1 ELSE 0)
        /\ published[c] = response[c]
        /\ Done(c) => events[c] = attempts[c]

\* Three attempts: two answered 500, the third one with an envelope that
\* cannot be resolved.
C16_Witness ==
    \E c \in Callers :
        /\ Raised(c) /\ result[c].exc \in {"TixteException", "KeyError", "JSONDecodeError"}
        /\ attempts[c] = 3 /\ events[c] = 3
        /\ published[c].status = 200

\* The entries of the waiter list just before the last dispatch whose future
\* was pending then.
PendingBefore ==
    {last.before[i] : i \in {j \in 1..Len(last.before) : last.before[j].future \in last.pending}}

\* Those of them whose predicate accepts the payload of that dispatch.
AcceptingBefore ==
    {e \in PendingBefore : e.condition # "None" /\ Accepts(e.condition, last.payload)}

Listed(w) == \E i \in 1..Len(client_waiters) : client_waiters[i].future = w

\* C17 (as claimed): a waiter with a predicate that was pending when a
\* dispatch with a satisfying argument was made has been resolved with that
\* argument and is no longer in the waiter list.
C17_FirstSatisfyingResolves ==
    \A e \in AcceptingBefore :
        /\ future[e.future] = SetResult(last.payload)
        /\ ~Listed(e.future)

\* C18 (as claimed): a waiter without a predicate that was pending when a
\* dispatch was made has been resolved with the payload of that dispatch.
C18_NoPredicateResolves ==
    \A e \in PendingBefore :
        e.condition = "None" => future[e.future] = SetResult(last.payload)

\* C19 (as claimed): a dispatch accepted by at least one pending waiter has
\* resolved exactly one waiter and removed it from the list.
C19_ExactlyOneResolved ==
    AcceptingBefore # {} =>
        /\ Cardinality(last.resolved) = 1
        /\ \A w \in last.resolved : ~Listed(w)

\* C20 (as claimed): a waiter whose wait_for ended by timeout is not in the
\* waiter list, and no dispatch made after the timeout called its predicate.
C20_TimedOutRemoved ==
    \A w \in Waiters :
        wait[w].at = "timeout" =>
            /\ ~Listed(w)
            /\ ~(w \in last.evaluated /\ w \notin last.pending)

\* The name the last listen call registers under.
ListenedName ==
    IF listened.event \in {"None", ""} THEN listened.func.name ELSE listened.event

\* C21 (as claimed): the last dispatch made one task for each callback that was
\* registered for the event when it was made, in their order, each with the
\* dispatched argument.
C21_EachListenerScheduledOnce ==
    last.payload # "none" =>
        /\ Len(tasks) = Len(last.callables)
        /\ \A i \in 1..Len(tasks) :
               /\ tasks[i].pos = i
               /\ tasks[i].func = last.callables[i]
               /\ tasks[i].args = last.payload

\* C22 (as claimed): whichever listeners fail, every other listener that was
\* registered for the event when the last dispatch was made has been made a
\* task by it, and the listener list still holds the callbacks it held.
C22_FailureIsolated ==
    /\ \A i \in 1..Len(last.callables) :
           last.callables[i].kind = "coro" => \E j \in 1..Len(tasks) : tasks[j].pos = i
    /\ Len(last.callables) <= Len(listeners["on_x"])
    /\ \A i \in 1..Len(last.callables) : listeners["on_x"][i] = last.callables[i]

\* C23: applying the decorator of listen to a callback that is not a
\* coroutine function raises TypeError; applying it to a coroutine function
\* under a name (the event given, else the function's name) that does not
\* start with on_ raises ValueError; and a call that raises leaves the
\* listener registry as it was.
C23_ListenValidates ==
    /\ [](/\ listened.func.kind = "function" => listened.exc = "TypeError"
          /\ (listened.func.kind \in CallbackKinds \ {"function"}
              /\ ~startswith_on(ListenedName)) => listened.exc = "ValueError")
    /\ [][(listened'.exc # "none" /\ listened' # listened) => listeners' = listeners]_vars

\* A coroutine function refused for its name after another one was
\* registered: the registry still holds that one only.
C23_Witness ==
    /\ listened.exc = "ValueError" /\ listened.event = "x"
    /\ Len(listeners["on_x"]) = 1 /\ Len(listeners["on_y"]) = 0

\* The object each constructor builds from a payload alone.
UserOf(data) == [id |-> data.id, username |-> data.username]
DomainOf(data) == [url |-> data.name, uploads |-> data.uploads, owner_id |-> data.owner]
Entries(seq) == {seq[i] : i \in 1..Len(seq)}

\* C24: after a fetch whose request succeeded, the cache holds the object
\* built from that response alone: the users entry of the id after fetch_user,
\* the client user after fetch_client_user, and the entry of every domain of
\* the response after fetch_domains.
C24_FetchOverwrites ==
    /\ (fetched.op = "fetch_user" /\ fetched.ok)
           => users[fetched.arg] = UserOf(fetched.data)
    /\ (fetched.op = "fetch_client_user" /\ fetched.ok)
           => client_user = UserOf(fetched.data)
    /\ (fetched.op = "fetch_domains" /\ fetched.ok)
           => \A e \in Entries(fetched.entries) :
                  get_domain(domains, e.name) = DomainOf(e)

\* C25: fetch_domains returns exactly the domains of the fetched response,
\* one per entry, whatever the cache held before.
C25_ReturnsFetchedDomains ==
    (fetched.op = "fetch_domains" /\ fetched.ok)
        => /\ Len(fetched.returned) = Len(fetched.entries)
           /\ Entries(fetched.returned) = {DomainOf(e) : e \in Entries(fetched.entries)}

\* C26: a cache entry changes only when an operation whose request succeeded
\* stores the same key or removes it; Domain.delete removes the entry of its
\* domain, and nothing else, once its request has succeeded, and leaves the
\* cache as it was when the request raises.
C26_EntriesStayUntilStoredOrRemoved ==
    [][/\ \A id \in UserIds :
              users'[id] # users[id]
                  => fetched'.op = "fetch_user" /\ fetched'.ok /\ fetched'.arg = id
       /\ client_user' # client_user
              => fetched'.op \in {"fetch_client_user", "create_domain"}
       /\ \A url \in DomainUrls :
              get_domain(domains', url) # get_domain(domains, url)
                  => \/ /\ fetched'.op = "fetch_domains" /\ fetched'.ok
                        /\ \E e \in Entries(fetched'.entries) : e.name = url
                     \/ fetched'.op = "create_domain" /\ fetched'.ok /\ fetched'.arg = url
                     \/ /\ fetched'.op = "delete_domain" /\ fetched'.ok
                        /\ fetched'.arg = url
                        /\ get_domain(domains', url) = NoDomain
       /\ (fetched'.op = "delete_domain" /\ ~fetched'.ok) => domains' = domains
       /\ (fetched'.op = "delete_domain" /\ fetched'.ok)
              => get_domain(domains', fetched'.arg) = NoDomain
      ]_vars

\* A delete whose request raised, with the entry of its domain still cached
\* next to another entry.
C26_Witness ==
    /\ fetched.op = "delete_domain" /\ ~fetched.ok
    /\ get_domain(domains, fetched.arg) # NoDomain
    /\ Len(domains) = 2

\* C27: whenever the client's async context has been exited, the HTTP
\* session is closed, whether the client created it or the caller supplied it.
C27_ExitClosesSession ==
    ctx.pos = "exited" => session = "closed"

\* The context of a client with a caller-supplied session has been exited
\* after the session was used.
C27_Witness ==
    /\ ctx.pos = "exited" /\ ctx.supplied
    /\ fetched.op = "fetch_domains" /\ fetched.ok
    /\ session = "closed"

\* C28: the download of url_to_file is retried like HTTP.request: a download
\* that ended on a 429, 500, 502 or 504 response has made MaxTries exchanges.
C28_DownloadRetried ==
    \A d \in Downloaders :
        (dl[d] = "done" /\ dlresult[d].status \in RetriedStatuses)
            => dlresult[d].exchanges = MaxTries

\* C29: two objects of the same kind with equal ids compare equal, whatever
\* their other fields.
C29_EqualIdsCompareEqual ==
    (compared # NoCompare /\ compared.a.kind = compared.b.kind
                          /\ compared.a.id = compared.b.id)
        => (compared.result.ok /\ compared.result.v = TRUE)

\* A 429 whose x-ratelimit-reset is 0 and that has no x-ratelimit-remaining.
ZeroResetNoRemaining(r) ==
    r.status = 429 /\ r.reset = "0" /\ r.remaining = "absent"

C31_FallbackOnEither ==
    [][\A c \in Callers :
           (/\ pc[c] = "exchange" /\ pc'[c] # "exchange"
            /\ response'[c].status = 429
            /\ WellFormed(response'[c])
            /\ float(response'[c].reset).ok
            /\ float(response'[c].retry).ok)
               => /\ pc'[c] = "sleeping"
                  /\ delay'[c] =
                         IF \/ response'[c].remaining = "absent"
                            \/ float(response'[c].reset).v = 0
                         THEN float(response'[c].retry).v
                         ELSE float(response'[c].reset).v
      ]_vars

\* The index, counted from 0 over all attempts of the call, of the attempt
\* whose exchange is under way or was the last.
AttemptIndex(c) == attempts[c] - 1

\* C32 (as claimed): a 500, 502 or 504 response on attempt index i puts the
\* request to sleep for 1 + 2*i seconds, after which it retries; a call that
\* returned on its fifth attempt without having been rate limited has slept
\* 16 seconds.
C32_BackoffAndRetry ==
    /\ [](\A c \in Callers :
             (Returned(c) /\ attempts[c] = MaxTries /\ ~limited[c]) => slept[c] = 16)
    /\ [][\A c \in Callers :
              /\ (pc[c] = "exchange" /\ pc'[c] # "exchange"
                      /\ IsServerTransient(response'[c].status))
                     => /\ pc'[c] = "sleeping"
                        /\ delay'[c] = 1 + 2 * AttemptIndex(c)
              /\ (pc[c] = "sleeping" /\ pc'[c] # "sleeping"
                      /\ IsServerTransient(response[c].status))
                     => /\ pc'[c] = "attempt"
                        /\ slept'[c] = slept[c] + 1 + 2 * AttemptIndex(c)
         ]_vars

\* C32 (amended): a 500, 502 or 504 response with a body that is text or a
\* well-formed envelope on attempt index i puts the request to sleep for
\* 1 + 2*i seconds; the sleep is slept in full, and when i < 4 the request
\* then retries; a call that returned on its fifth attempt without having
\* been rate limited has slept 1+3+5+7 = 16 seconds.
C32_BackoffThenRetryWhileTriesLeft ==
    /\ [](\A c \in Callers :
             (Returned(c) /\ attempts[c] = MaxTries /\ ~limited[c]) => slept[c] = 16)
    /\ [][\A c \in Callers :
              /\ (pc[c] = "exchange" /\ pc'[c] # "exchange"
                      /\ IsServerTransient(response'[c].status)
                      /\ WellFormed(response'[c]))
                     => /\ pc'[c] = "sleeping"
                        /\ delay'[c] = 1 + 2 * AttemptIndex(c)
              /\ (pc[c] = "sleeping" /\ pc'[c] # "sleeping"
                      /\ IsServerTransient(response[c].status))
                     => /\ slept'[c] = slept[c] + 1 + 2 * AttemptIndex(c)
                        /\ AttemptIndex(c) < MaxTries - 1 => pc'[c] = "attempt"
         ]_vars

\* Four responses 500, 502 or 504 and then a 200: returned after 16 seconds.
C32_Witness ==
    \E c \in Callers :
        /\ Returned(c) /\ attempts[c] = MaxTries /\ ~limited[c]
        /\ response[c].status = 200 /\ slept[c] = 16

\* The error classes built by HTTPException.__init__.
HTTPErrors == {"HTTPException", "NotFound", "Forbidden", "PaymentRequired", "TixteServerError"}

\* C33: an HTTP error raised for a non-2xx response whose body is the failure
\* envelope {success: false, error: {code: c1, message: m1}} has c1 as its
\* code attribute and m1 as its message attribute.
C33_ErrorExposesEnvelope ==
    \A c \in Callers :
        (/\ Raised(c) /\ result[c].exc \in HTTPErrors
         /\ ~IsOk(response[c].status)
         /\ response[c].ctype = JsonType /\ response[c].body = "fail_e1")
            => /\ HTTPException_init(result[c].value).code = "c1"
               /\ HTTPException_init(result[c].value).message = "m1"

\* C34: the request sleeps between attempts only: after its fifth attempt it
\* does not sleep, and a call that ran out of attempts on 500, 502 and 504
\* responses alone has slept 1+3+5+7 = 16 seconds.
C34_NoSleepAfterLastAttempt ==
    \A c \in Callers :
        /\ attempts[c] = MaxTries => pc[c] # "sleeping"
        /\ (Raised(c) /\ result[c].exit = "exhausted" /\ ~limited[c]) => slept[c] = 16

\* C35: every exchange of an upload after the first carries the file bytes
\* the first one carried.
C35_RetriedUploadCarriesFile ==
    \A c \in Callers :
        (file[c].given /\ attempts[c] >= 2) => file[c].carried = "bytes"

\* C36: the lock is never held by a request that has ended, by returning, by
\* raising a typed error, or by an exception raised during an attempt or a
\* sleep; and every request waiting for the lock eventually holds it.
C36_LockReleasedAndWaitersStart ==
    /\ [](\A c \in Callers : Done(c) => session_lock # c)
    /\ \A c \in Callers : (pc[c] = "waiting") ~> (session_lock = c)

\* A request was cancelled in its sleep while another one waited, and the
\* other one holds the lock.
C36_Witness ==
    \E c, d \in Callers :
        /\ c # d
        /\ Done(c) /\ result[c].exit = "sleep"
        /\ session_lock = d /\ pc[d] \in {"attempt", "exchange", "sleeping"}

\* What HTTP.request does with a response when nobody observes the `request`
\* event: the attempt alone decides.
Unobserved(c) == Attempt(response'[c], tries[c])

\* C37: with listeners registered for the `request` event, whatever they do,
\* every response is handled as it is without them: the same sleep, or the
\* same returned value or raised error with the same file parts closed.
C37_ObserversChangeNothing ==
    [][\A c \in Callers :
           (pc[c] = "exchange" /\ pc'[c] # "exchange")
               => IF Unobserved(c).kind = "sleep"
                  THEN pc'[c] = "sleeping" /\ delay'[c] = Unobserved(c).delay
                  ELSE /\ pc'[c] = "done"
                       /\ result'[c].tag = Unobserved(c).kind
                       /\ result'[c].exc = Unobserved(c).exc
                       /\ result'[c].value = Unobserved(c).value
                       /\ closed'[c] = (files[c] /\ Unobserved(c).close)
      ]_vars

\* C38: once the mapping has been fetched, get() maps each user to the level
\* of the latest add or edit whose request succeeded and has no user whose
\* latest such call was remove (None counts as the empty mapping); a call
\* whose request raised has left the mapping as it was.
C38_MappingFollowsCalls ==
    /\ [](granted.set => permissions.levels = granted.levels)
    /\ [][~permitted'.ok => permissions' = permissions]_vars

=============================================================================
